---- MODULE Spec2Model ----
(***************************************************************************)
(* Model of the route engine of best_route (src/main.rs): the Cloud type   *)
(* (a registry of places and a table of pairwise distances), the label     *)
(* parsing done by Place::new, and the route computations                  *)
(* get_ordinal_route, get_best_route, brute_force and lazzy_walker.        *)
(*                                                                         *)
(* f64 values are modelled by integers: every position offered to add is a *)
(* lattice point, and the position sets are chosen so that the distance    *)
(* between any two of them is an integer, hence every f64 operation of the *)
(* code (subtraction, powi(2), sqrt, +, <) is exact on these inputs.       *)
(***************************************************************************)
EXTENDS FiniteSets, Integers, Sequences, TLC

VARIABLES
    places,     \* Cloud.places: id -> Place
    distances,  \* Cloud.distances: id -> (id -> distance)
    last,       \* the last call made on the cloud, with what it returned
    panic,      \* "none", or the panic that ended the program
    adds        \* number of calls of Cloud::add so far

vars == <<places, distances, last, panic, adds>>

----------------------------------------------------------------------------
(* Bounds of the model *)

MaxId == 3
MaxAdds == 3
LineN == 4

(* Program constants *)

\* f64::MAX, the initial minimum of both searches: above every route length
F64_MAX == 1000000
\* get_best_route searches exhaustively below this number of points
BruteLimit == 10
\* Place::new: assert_eq!(6, tokens.len())
LabelTokens == 6

----------------------------------------------------------------------------
(* Option<T>: None is the empty sequence, Some(v) a one-element sequence *)

None == <<>>
Some(v) == <<v>>
IsSome(o) == o /= None
Unwrap(o) == o[1]
UnwrapOr(o, d) == IF IsSome(o) THEN o[1] ELSE d

(* HashMap *)

EmptyMap == [x \in {} |-> 0]
MapGet(m, k) == IF k \in DOMAIN m THEN Some(m[k]) ELSE None
MapInsert(m, k, v) == [x \in (DOMAIN m) \cup {k} |-> IF x = k THEN v ELSE m[x]]

(* Vec *)

Reverse(s) == [i \in 1..Len(s) |-> s[Len(s) + 1 - i]]
RemoveAt(s, i) == SubSeq(s, 1, i - 1) \o SubSeq(s, i + 1, Len(s))
Range(s) == {s[i] : i \in 1..Len(s)}

\* slice::sort_by, a stable sort; less[i][j] is the result of the comparison
\* for s[i] and s[j]. An element goes after every element that is less than
\* it and after the equivalent elements that preceded it
StableSort(s, less) ==
    LET rank(i) ==
            Cardinality({j \in 1..Len(s) : less[j][i]})
            + Cardinality({j \in 1..(i - 1) : ~less[j][i] /\ ~less[i][j]})
            + 1
    IN  [k \in 1..Len(s) |-> s[CHOOSE i \in 1..Len(s) : rank(i) = k]]

\* every order in which a HashMap with the key set S may be iterated
RECURSIVE IterOrders(_)
IterOrders(S) ==
    IF S = {} THEN {<<>>}
    ELSE UNION {{<<x>> \o p : p \in IterOrders(S \ {x})} : x \in S}

----------------------------------------------------------------------------
(* Position *)

Powi2(v) == v * v

\* f64::sqrt, on the perfect squares the position sets produce
RECURSIVE SqrtFrom(_, _)
SqrtFrom(n, r) == IF r * r >= n THEN r ELSE SqrtFrom(n, r + 1)
Sqrt(n) == SqrtFrom(n, 0)

Distance(a, b) ==
    Sqrt(Powi2(a[1] - b[1]) + Powi2(a[2] - b[2]) + Powi2(a[3] - b[3]))

----------------------------------------------------------------------------
(* Place::new: a name is a sequence of characters *)

IsWhitespace(c) == c = " "

RECURSIVE TrimStart(_)
TrimStart(s) ==
    IF s /= <<>> /\ IsWhitespace(Head(s)) THEN TrimStart(Tail(s)) ELSE s
Trim(s) == Reverse(TrimStart(Reverse(TrimStart(s))))

RECURSIVE SplitFrom(_, _, _, _)
SplitFrom(s, i, cur, acc) ==
    LET closed == IF cur = <<>> THEN acc ELSE Append(acc, cur)
    IN  IF i > Len(s) THEN closed
        ELSE IF IsWhitespace(s[i]) THEN SplitFrom(s, i + 1, <<>>, closed)
        ELSE SplitFrom(s, i + 1, Append(cur, s[i]), acc)
SplitWhitespace(s) == SplitFrom(s, 1, <<>>, <<>>)

RomanDigits == {"I", "V", "X", "L", "C", "D", "M"}
RomanDigit(c) ==
    CASE c = "I" -> 1 [] c = "V" -> 5 [] c = "X" -> 10 [] c = "L" -> 50
      [] c = "C" -> 100 [] c = "D" -> 500 [] c = "M" -> 1000

RECURSIVE RomanSum(_, _)
RomanSum(tok, i) ==
    IF i > Len(tok) THEN 0
    ELSE LET v == RomanDigit(tok[i])
         IN  IF i < Len(tok) /\ v < RomanDigit(tok[i + 1])
             THEN RomanSum(tok, i + 1) - v
             ELSE RomanSum(tok, i + 1) + v

\* str::parse::<Roman>: an error on any character that is no Roman digit
ParseRoman(tok) ==
    IF tok = <<>> \/ \E i \in 1..Len(tok) : tok[i] \notin RomanDigits THEN None
    ELSE Some(RomanSum(tok, 1))

Digits == {"0", "1", "2", "3", "4", "5", "6", "7", "8", "9"}
DigitValue(c) ==
    CASE c = "0" -> 0 [] c = "1" -> 1 [] c = "2" -> 2 [] c = "3" -> 3 [] c = "4" -> 4
      [] c = "5" -> 5 [] c = "6" -> 6 [] c = "7" -> 7 [] c = "8" -> 8 [] c = "9" -> 9

RECURSIVE DecimalValue(_, _)
DecimalValue(tok, n) ==
    IF n = 0 THEN 0 ELSE 10 * DecimalValue(tok, n - 1) + DigitValue(tok[n])

\* str::parse::<u32>, on tokens short enough not to overflow
ParseU32(tok) ==
    IF tok = <<>> \/ \E i \in 1..Len(tok) : tok[i] \notin Digits THEN None
    ELSE Some(DecimalValue(tok, Len(tok)))

(* Inputs *)

Ids == 1..MaxId

\* the corners of a right triangle with the sides 5, 12 and 13
Positions == {<<0, 0, 0>>, <<3, 4, 0>>, <<3, 4, 12>>}

NameI1 == <<"S", " ", "I", " ", "-", " ", "A", " ", "B", " ", "1">>
\* padded with whitespace, and with a sixth token that is no number
NameIIx == <<" ", "S", " ", "I", "I", " ", "-", " ", " ", "A", " ", "B", " ", "x", " ">>
\* five tokens
NameShort == <<"S", " ", "I", " ", "-", " ", "B", " ", "1">>
\* the second token is no Roman numeral
NameNoRoman == <<"S", " ", "Q", " ", "-", " ", "A", " ", "B", " ", "1">>

GoodNames == {NameI1, NameIIx}
Names == GoodNames \cup {NameShort, NameNoRoman}

\* points on the x axis at unit spacing, added in any order, each at a place
\* of its own; the ids are given out in the order of the calls of add, each
\* with a name of its own
LinePositions == {<<i, 0, 0>> : i \in 0..(LineN - 1)}
DigitChar(i) == CHOOSE c \in Digits : DigitValue(c) = i
LineName(id) == <<"L", " ", "I", " ", "-", " ", "A", " ", "B", " ", DigitChar(id)>>
LineNames == {LineName(id) : id \in 1..LineN}

(* Place::new, continued *)

\* name.trim().split_whitespace().collect(), computed once for every name
\* that is offered to add
TokensOf == [name \in Names \cup LineNames |-> SplitWhitespace(Trim(name))]

NoPlace == [id |-> 0, name |-> <<>>, position |-> <<0, 0, 0>>,
            cloud_number |-> 0, belt_number |-> 0]

\* Place::new without its two checks: a label it cannot read counts as 0
PlaceNewLenient(id, name, position) ==
    LET tokens == TokensOf[name]
    IN  [panic |-> "none",
         place |-> [id |-> id, name |-> name, position |-> position,
                    cloud_number |-> IF Len(tokens) >= 2
                                     THEN UnwrapOr(ParseRoman(tokens[2]), 0) ELSE 0,
                    belt_number |-> IF Len(tokens) >= LabelTokens
                                    THEN UnwrapOr(ParseU32(tokens[6]), 0) ELSE 0]]

\* Place::new either panics (assert_eq! on the token count, unwrap of the
\* Roman numeral) or returns the place
PlaceNew(id, name, position) ==
    LET tokens == TokensOf[name]
    IN  IF Len(tokens) /= LabelTokens
        THEN [panic |-> "assert_eq_tokens", place |-> NoPlace]
        ELSE IF ~IsSome(ParseRoman(tokens[2]))
        THEN [panic |-> "unwrap_roman", place |-> NoPlace]
        ELSE [panic |-> "none",
              place |-> [id |-> id, name |-> name, position |-> position,
                         cloud_number |-> Unwrap(ParseRoman(tokens[2])),
                         belt_number |-> UnwrapOr(ParseU32(tokens[6]), 0)]]

----------------------------------------------------------------------------
(* Cloud *)

get_name(id) ==
    IF IsSome(MapGet(places, id)) THEN Some(places[id].name) ELSE None

\* a pass that stores the distance from the new id only
InsertForward(dist, id, destination, d) ==
    MapInsert(dist, id,
        MapInsert(UnwrapOr(MapGet(dist, id), EmptyMap), destination, d))

\* a pass that stores the way back as 0
InsertBackZero(dist, id, destination, d) ==
    LET there == InsertForward(dist, id, destination, d)
    IN  MapInsert(there, destination,
            MapInsert(UnwrapOr(MapGet(there, destination), EmptyMap), id, 0))

\* one pass of the loop of add: the distance is stored in both directions
InsertBoth(dist, id, destination, d) ==
    LET there == MapInsert(dist, id,
                     MapInsert(UnwrapOr(MapGet(dist, id), EmptyMap), destination, d))
    IN  MapInsert(there, destination,
            MapInsert(UnwrapOr(MapGet(there, destination), EmptyMap), id, d))

\* the loop of add over the places registered before the call (todo)
RECURSIVE AddLoop(_, _, _, _)
AddLoop(dist, todo, id, position) ==
    IF todo = {} THEN dist
    ELSE LET destination == CHOOSE x \in todo : TRUE
             d == Distance(position, places[destination].position)
         IN  AddLoop(InsertBoth(dist, id, destination, d),
                     todo \ {destination}, id, position)

distance_between(a, b) ==
    IF IsSome(MapGet(distances, a)) THEN MapGet(distances[a], b) ELSE None

RECURSIVE route_distance(_)
route_distance(route) ==
    IF Len(route) < 2 THEN 0
    ELSE route_distance(SubSeq(route, 1, Len(route) - 1))
         + UnwrapOr(distance_between(route[Len(route) - 1], route[Len(route)]), 0)

\* the comparison of get_ids_sorted_by_name
LabelLess(a, b) ==
    IF a.cloud_number = b.cloud_number
    THEN a.belt_number < b.belt_number
    ELSE a.cloud_number < b.cloud_number

\* order is the order in which places.values() yields the places
get_ids_sorted_by_name(order) ==
    LET values == [i \in 1..Len(order) |-> places[order[i]]]
        sorted == StableSort(values,
                      [i \in 1..Len(values) |->
                          [j \in 1..Len(values) |-> LabelLess(values[i], values[j])]])
    IN  [i \in 1..Len(sorted) |-> sorted[i].id]

----------------------------------------------------------------------------
(* brute_force *)

\* Itertools::permutations(points.len()): lexicographic in the positions
RECURSIVE permutations(_)
RECURSIVE permutations_from(_, _)
permutations_from(s, i) ==
    IF i > Len(s) THEN <<>>
    ELSE LET sub == permutations(RemoveAt(s, i))
         IN  [k \in 1..Len(sub) |-> <<s[i]>> \o sub[k]] \o permutations_from(s, i + 1)
permutations(s) == IF s = <<>> THEN << <<>> >> ELSE permutations_from(s, 1)

\* a loop body that keeps the first path it scores
BruteStepFirst(st, path) ==
    IF path \in st.calculated THEN st
    ELSE LET distance == route_distance(path)
             better == st.minimal = F64_MAX
         IN  [minimal |-> IF better THEN distance ELSE st.minimal,
              route |-> IF better THEN path ELSE st.route,
              calculated |-> st.calculated \cup {Reverse(path)},
              scored |-> Append(st.scored, path)]

\* a loop body that scores a path whether or not its reverse was scored
BruteStepNoSkip(st, path) ==
    LET distance == route_distance(path)
        better == distance < st.minimal
    IN  [minimal |-> IF better THEN distance ELSE st.minimal,
         route |-> IF better THEN path ELSE st.route,
         calculated |-> st.calculated \cup {Reverse(path)},
         scored |-> Append(st.scored, path)]

\* the body of the loop of brute_force; scored lists the paths handed to
\* route_distance, in order
BruteStep(st, path) ==
    IF path \in st.calculated THEN st
    ELSE LET distance == route_distance(path)
             better == distance < st.minimal
         IN  [minimal |-> IF better THEN distance ELSE st.minimal,
              route |-> IF better THEN path ELSE st.route,
              calculated |-> st.calculated \cup {Reverse(path)},
              scored |-> Append(st.scored, path)]

RECURSIVE BruteLoop(_, _, _)
BruteLoop(st, paths, i) ==
    IF i > Len(paths) THEN st ELSE BruteLoop(BruteStep(st, paths[i]), paths, i + 1)

brute_force(points) ==
    LET st == BruteLoop([minimal |-> F64_MAX, route |-> <<>>,
                         calculated |-> {}, scored |-> <<>>],
                        permutations(points), 1)
    IN  [dist |-> st.minimal, route |-> st.route, scored |-> st.scored,
         candidates |-> <<>>, missing |-> FALSE]

----------------------------------------------------------------------------
(* lazzy_walker *)

\* the comparison turned round: ascending distance to point
CloserFrom(point, a, b) ==
    Unwrap(distance_between(point, a)) < Unwrap(distance_between(point, b))

\* the comparison of the sort of lazzy_walker_impl: descending distance to point
FartherFrom(point, a, b) ==
    Unwrap(distance_between(point, a)) > Unwrap(distance_between(point, b))

\* the closest of the points not yet placed goes to the end of the route;
\* missing: an unwrap of the sort met a pair with no stored distance
RECURSIVE lazzy_walker_impl(_, _)
lazzy_walker_impl(route, points) ==
    IF points = <<>>
    THEN [dist |-> route_distance(route), route |-> route, missing |-> FALSE]
    ELSE LET point == route[Len(route)]
         IN  IF Len(points) >= 2
                /\ \E i \in 1..Len(points) : ~IsSome(distance_between(point, points[i]))
             THEN [dist |-> 0, route |-> route, missing |-> TRUE]
             ELSE LET sorted == IF Len(points) >= 2
                                THEN StableSort(points,
                                         [i \in 1..Len(points) |->
                                             [j \in 1..Len(points) |->
                                                 FartherFrom(point, points[i], points[j])]])
                                ELSE points
                      closest == sorted[Len(sorted)]
                  IN  lazzy_walker_impl(Append(route, closest),
                                        SubSeq(sorted, 1, Len(sorted) - 1))

\* a loop body in which a later candidate of the same length replaces the minimum
WalkStepLastWins(st, starts) ==
    LET point == Head(starts)
        walk == lazzy_walker_impl(<<point>>, Tail(starts))
        better == ~walk.missing /\ walk.dist <= st.min_dist
    IN  [min_dist |-> IF better THEN walk.dist ELSE st.min_dist,
         min_route |-> IF better THEN walk.route ELSE st.min_route,
         candidates |-> Append(st.candidates, [dist |-> walk.dist, route |-> walk.route]),
         missing |-> st.missing \/ walk.missing]

\* the body of the loop of lazzy_walker for the start at the front of starts;
\* candidates lists the route built from each start, in order
WalkStep(st, starts) ==
    LET point == Head(starts)
        walk == lazzy_walker_impl(<<point>>, Tail(starts))
        better == ~walk.missing /\ walk.dist < st.min_dist
    IN  [min_dist |-> IF better THEN walk.dist ELSE st.min_dist,
         min_route |-> IF better THEN walk.route ELSE st.min_route,
         candidates |-> Append(st.candidates, [dist |-> walk.dist, route |-> walk.route]),
         missing |-> st.missing \/ walk.missing]

RECURSIVE WalkLoop(_, _, _)
WalkLoop(st, starts, count) ==
    IF count = 0 THEN st
    ELSE IF starts = <<>> THEN WalkLoop(st, starts, count - 1)
    ELSE WalkLoop(WalkStep(st, starts), Append(Tail(starts), Head(starts)), count - 1)

lazzy_walker(points) ==
    LET st == WalkLoop([min_dist |-> F64_MAX, min_route |-> <<>>,
                        candidates |-> <<>>, missing |-> FALSE],
                       points, Len(points))
    IN  [dist |-> st.min_dist, route |-> st.min_route, scored |-> <<>>,
         candidates |-> st.candidates, missing |-> st.missing]

----------------------------------------------------------------------------
(* get_ordinal_route and get_best_route, on the sorted ids *)

Direct(points) ==
    [dist |-> route_distance(points), route |-> points, scored |-> <<>>,
     candidates |-> <<>>, missing |-> FALSE]

ordinal_route(points) == Direct(points)

\* get_best_route without its three short cuts
best_route_search(points) ==
    IF Len(points) < BruteLimit THEN brute_force(points) ELSE lazzy_walker(points)

best_route(points) ==
    IF points = <<>>
    THEN [dist |-> 0, route |-> <<>>, scored |-> <<>>, candidates |-> <<>>,
          missing |-> FALSE]
    ELSE IF 1 = Len(points)
    THEN [dist |-> 0, route |-> points, scored |-> <<>>, candidates |-> <<>>,
          missing |-> FALSE]
    ELSE IF 2 = Len(points) THEN Direct(points)
    ELSE IF Len(points) < BruteLimit THEN brute_force(points)
    ELSE lazzy_walker(points)

----------------------------------------------------------------------------
(* The state machine *)

NoCall == [op |-> "none", id |-> 0, name |-> <<>>, dist |-> 0, route |-> <<>>,
           scored |-> <<>>, candidates |-> <<>>]

Returned(op, r) ==
    [op |-> op, id |-> 0, name |-> <<>>, dist |-> r.dist, route |-> r.route,
     scored |-> r.scored, candidates |-> r.candidates]

Init ==
    /\ places = EmptyMap
    /\ distances = EmptyMap
    /\ last = NoCall
    /\ panic = "none"
    /\ adds = 0

\* Cloud::add
Add(id, name, position) ==
    /\ panic = "none"
    /\ adds' = adds + 1
    /\ last' = [NoCall EXCEPT !.op = "add", !.id = id, !.name = name]
    /\ LET belt == PlaceNew(id, name, position)
       IN  IF belt.panic /= "none"
           THEN /\ panic' = belt.panic
                /\ UNCHANGED <<places, distances>>
           ELSE /\ distances' = AddLoop(distances, DOMAIN places, id, position)
                /\ places' = MapInsert(places, id, belt.place)
                /\ UNCHANGED panic

\* what get_ids_sorted_by_name may return: one vector for each order in which
\* the registry may be iterated
SortedIds == {get_ids_sorted_by_name(order) : order \in IterOrders(DOMAIN places)}

\* a call of one of the route functions on the cloud
Query(op, r) ==
    /\ last' = Returned(op, r)
    /\ panic' = IF r.missing THEN "unwrap_distance" ELSE "none"
    /\ UNCHANGED <<places, distances, adds>>

GetOrdinalRoute ==
    /\ panic = "none"
    /\ \E points \in SortedIds : Query("ordinal", ordinal_route(points))

GetBestRoute ==
    /\ panic = "none"
    /\ \E points \in SortedIds : Query("best", best_route(points))

\* brute_force on the points get_best_route would hand to it
CallBruteForce ==
    /\ panic = "none"
    /\ \E points \in SortedIds : Query("brute", brute_force(points))

\* lazzy_walker on the points get_best_route would hand to it
CallLazzyWalker ==
    /\ panic = "none"
    /\ \E points \in SortedIds : Query("lazzy", lazzy_walker(points))

\* the ids are given out in order: add is called with a registered id or with
\* the first id not yet used
NextIds == {id \in Ids : id <= Cardinality(DOMAIN places) + 1}

\* a call of add by the user of the cloud, with any of the inputs
AddAny ==
    /\ adds < MaxAdds
    /\ \E id \in NextIds, name \in Names, position \in Positions :
           Add(id, name, position)

\* the cloud with get_best_route
Next ==
    \/ AddAny
    \/ GetBestRoute

Spec == Init /\ [][Next]_vars

\* the cloud with get_ordinal_route
NextOrdinal ==
    \/ AddAny
    \/ GetOrdinalRoute

SpecOrdinal == Init /\ [][NextOrdinal]_vars

\* the cloud with the exact search called on its points
NextBrute ==
    \/ AddAny
    \/ CallBruteForce

SpecBrute == Init /\ [][NextBrute]_vars

\* the cloud with the heuristic search called on its points
NextLazzy ==
    \/ AddAny
    \/ CallLazzyWalker

SpecLazzy == Init /\ [][NextLazzy]_vars

\* a cloud of points on a line, with get_best_route and both searches
NextLine ==
    \/ /\ adds < LineN
       /\ \E position \in LinePositions \ {places[id].position : id \in DOMAIN places} :
              Add(adds + 1, LineName(adds + 1), position)
    \/ GetOrdinalRoute
    \/ GetBestRoute
    \/ CallBruteForce
    \/ CallLazzyWalker

SpecLine == Init /\ [][NextLine]_vars

----------------------------------------------------------------------------
(* Vocabulary of the properties *)

PlaceIds == DOMAIN places
N == Cardinality(PlaceIds)

\* ids that may be asked about: those add can be given, and one it never is
AnyIds == Ids \cup {0}

IsRouteOfAll(route) == Len(route) = N /\ Range(route) = PlaceIds

\* the sum of the stored distances of the consecutive pairs of a route
RECURSIVE SumOfPairs(_, _)
SumOfPairs(route, i) ==
    IF i >= Len(route) THEN 0
    ELSE distances[route[i]][route[i + 1]] + SumOfPairs(route, i + 1)
PathLength(route) == SumOfPairs(route, 1)

RECURSIVE Factorial(_)
Factorial(k) == IF k = 0 THEN 1 ELSE k * Factorial(k - 1)

----------------------------------------------------------------------------
\* C1: for two distinct ids, distance_between returns a value exactly when
\* both have been added (the table is dense over the registered points), and
\* None when one of them never was, also on the empty cloud.
C1_Dense ==
    \A a \in AnyIds, b \in AnyIds :
        a /= b =>
            (IsSome(distance_between(a, b)) <=> (a \in PlaceIds /\ b \in PlaceIds))

\* three points are registered, two of them 13 apart, one never added
C1_Witness ==
    /\ N = 3
    /\ panic = "none"
    /\ \E a \in PlaceIds, b \in PlaceIds : distance_between(a, b) = Some(13)
    /\ distance_between(0, 1) = None

\* C2: the table is symmetric after any sequence of adds, re-adds included:
\* distance_between(a, b) and distance_between(b, a) are both absent or both
\* present with the same value.
C2_Symmetric ==
    \A a \in AnyIds, b \in AnyIds : distance_between(a, b) = distance_between(b, a)

\* an id was added again (more adds than points) next to another point
C2_Witness ==
    /\ N = 2
    /\ adds > N
    /\ panic = "none"
    /\ \E a \in PlaceIds, b \in PlaceIds : a /= b /\ distance_between(a, b) = Some(12)

\* C3: adding an id again replaces the point and its distances: the added id
\* is registered, and every stored entry distances[a][b] is the distance
\* between the positions now registered for a and b.
C3_ReaddReplaces ==
    /\ (last.op = "add" /\ panic = "none") => last.id \in PlaceIds
    /\ \A a \in DOMAIN distances : \A b \in DOMAIN distances[a] :
           /\ a \in PlaceIds
           /\ b \in PlaceIds
           /\ distances[a][b] = Distance(places[a].position, places[b].position)

\* C4 as stated: add never fails because of the name; it registers the point
\* whatever the name is.
C4_AddNeverFails ==
    last.op = "add" => (panic = "none" /\ last.id \in PlaceIds)

\* C4 as amended: add panics, and leaves the cloud as it was, when the name
\* does not split into six tokens or its second token is no Roman numeral;
\* with any other name (a sixth token that is no number included) it registers
\* the point under that name with a distance to every other point;
\* get_ordinal_route, the one reader of the labels, never fails.
C4_AddFailsFast ==
    [][
        /\ (last'.op = "add" /\ last'.name \in GoodNames) =>
               /\ panic' = "none"
               /\ last'.id \in DOMAIN places'
               /\ places'[last'.id].name = last'.name
               /\ \A q \in (DOMAIN places') \ {last'.id} :
                      /\ last'.id \in DOMAIN distances'[q]
                      /\ q \in DOMAIN distances'[last'.id]
        /\ (last'.op = "add" /\ last'.name = NameIIx) =>
               /\ places'[last'.id].cloud_number = 2
               /\ places'[last'.id].belt_number = 0
        /\ (last'.op = "add" /\ last'.name \notin GoodNames) =>
               /\ panic' = (IF last'.name = NameShort THEN "assert_eq_tokens"
                            ELSE "unwrap_roman")
               /\ places' = places
               /\ distances' = distances
        /\ last'.op /= "add" => panic' = "none"
    ]_vars

\* add was given a name of five tokens while a point was registered
C4_Witness ==
    /\ last.op = "add"
    /\ last.name = NameShort
    /\ panic = "assert_eq_tokens"
    /\ N >= 1
    /\ last.id \notin PlaceIds

\* C5: with 3 to 9 points get_best_route returns a route that holds every
\* registered id once, with the sum of its consecutive stored distances, and
\* no order of the ids has a smaller sum.
C5_BestIsMinimal ==
    (last.op = "best" /\ 2 < N /\ N < BruteLimit) =>
        /\ IsRouteOfAll(last.route)
        /\ last.dist = PathLength(last.route)
        /\ \A p \in IterOrders(PlaceIds) : last.dist <= PathLength(p)

\* the best route of three points is shorter than some other order of them
C5_Witness ==
    /\ last.op = "best"
    /\ N = 3
    /\ \E p \in IterOrders(PlaceIds) : PathLength(p) > last.dist
    /\ last.dist > 0

\* C6: on at most two points get_best_route answers without a search (no path
\* is scored, no candidate is built): (0, []) on the empty cloud, (0, [id]) on
\* one point, and on two points the stored distance between them with a route
\* that holds both ids once.
C6_SmallClouds ==
    (last.op = "best" /\ N <= 2) =>
        /\ last.scored = <<>>
        /\ last.candidates = <<>>
        /\ N = 0 => (last.dist = 0 /\ last.route = <<>>)
        /\ N = 1 => (last.dist = 0 /\ Len(last.route) = 1 /\ last.route[1] \in PlaceIds)
        /\ N = 2 => /\ IsRouteOfAll(last.route)
                    /\ Some(last.dist) = distance_between(last.route[1], last.route[2])

\* get_best_route returned the two points of a cloud, which are 13 apart
C6_Witness ==
    /\ last.op = "best"
    /\ N = 2
    /\ last.dist = 13
    /\ last.route[1] > last.route[2]

\* C7: get_best_route returns one answer for a given set of points: whatever
\* the order in which the registry is iterated, the distance and the route are
\* the ones returned, also when points share a label key.
C7_Deterministic ==
    last.op = "best" =>
        \A points \in SortedIds :
            /\ best_route(points).dist = last.dist
            /\ best_route(points).route = last.route

\* C8: the points of the cloud are on the x axis at x = 0 .. n-1
LineCloud ==
    /\ N >= 1
    /\ {places[id].position : id \in PlaceIds} = {<<x, 0, 0>> : x \in 0..(N - 1)}

XOf(id) == places[id].position[1]

Monotonic(route) ==
    \/ \A i \in 1..(Len(route) - 1) : XOf(route[i + 1]) = XOf(route[i]) + 1
    \/ \A i \in 1..(Len(route) - 1) : XOf(route[i + 1]) = XOf(route[i]) - 1

\* C8: for n points on a line at unit spacing, in whatever order they were
\* added, get_best_route, brute_force and lazzy_walker each return the length
\* n - 1 and a route that visits all the points in monotonic spatial order.
C8_LineRoutes ==
    (LineCloud /\ last.op \in {"best", "brute", "lazzy"}) =>
        /\ last.dist = N - 1
        /\ IsRouteOfAll(last.route)
        /\ Monotonic(last.route)

\* lazzy_walker ran on four points added in the order x = 1, 3, 0, 2
C8_Witness ==
    /\ LineCloud
    /\ N = 4
    /\ last.op = "lazzy"
    /\ XOf(1) = 1 /\ XOf(2) = 3 /\ XOf(3) = 0 /\ XOf(4) = 2

\* C9: brute_force over n >= 2 ids never scores both a permutation and its
\* reverse: at most n!/2 paths are scored, none twice, and of every
\* permutation and its reverse exactly one is scored.
C9_ReversalDedup ==
    (last.op = "brute" /\ N >= 2) =>
        /\ 2 * Len(last.scored) <= Factorial(N)
        /\ \A i \in 1..Len(last.scored), j \in 1..Len(last.scored) :
               last.scored[i] = last.scored[j] => i = j
        /\ \A p \in IterOrders(PlaceIds) :
               (p \in Range(last.scored)) /= (Reverse(p) \in Range(last.scored))

\* brute_force scored three of the six orders of three points
C9_Witness ==
    /\ last.op = "brute"
    /\ N = 3
    /\ Len(last.scored) = 3

\* the candidate is built greedily: every id after the first is, among the ids
\* not yet placed, one at minimum stored distance from its predecessor
Greedy(route) ==
    \A k \in 2..Len(route) : \A j \in k..Len(route) :
        distances[route[k - 1]][route[k]] <= distances[route[k - 1]][route[j]]

\* C10: lazzy_walker on a dense cloud of n >= 1 points ends without a missing
\* distance, having built one candidate per starting point; each candidate
\* holds every id once, is greedy and carries the sum of its stored distances;
\* the result is the first candidate of minimum total, with that total.
C10_LazzyWalker ==
    (last.op = "lazzy" /\ N >= 1) =>
        LET c == last.candidates
        IN  /\ panic = "none"
            /\ Len(c) = N
            /\ {c[i].route[1] : i \in 1..Len(c)} = PlaceIds
            /\ \A i \in 1..Len(c) :
                   /\ IsRouteOfAll(c[i].route)
                   /\ Greedy(c[i].route)
                   /\ c[i].dist = PathLength(c[i].route)
            /\ \E i \in 1..Len(c) :
                   /\ last.route = c[i].route
                   /\ last.dist = c[i].dist
                   /\ \A j \in 1..Len(c) : c[i].dist <= c[j].dist
                   /\ \A j \in 1..(i - 1) : c[i].dist < c[j].dist

\* lazzy_walker ran on three points; two of its candidates tie for the
\* minimum and a third is longer
C10_Witness ==
    /\ last.op = "lazzy"
    /\ N = 3
    /\ \E i \in 1..3, j \in 1..3 :
           /\ i /= j
           /\ last.candidates[i].dist = last.dist
           /\ last.candidates[j].dist = last.dist
           /\ last.candidates[i].route /= last.candidates[j].route
    /\ \E i \in 1..3 : last.candidates[i].dist > last.dist

====
